---- MODULE Spec2Model ----
(***************************************************************************)
(* Verification model of the qanoon corpus tooling:                        *)
(*   prepare_axolotl_cpt.py   normalizer, article segmenter, paragraph     *)
(*                            chunker, chunk capper, dataset assembler     *)
(*   clean_qnoon_collection.py  leading noise-line stripper                *)
(*   scan_qanoon_corpus.py    normalizer of the corpus scanner             *)
(*                                                                         *)
(* A text is a sequence of one-character tokens.  " ", "\n", "\t", "\r"    *)
(* are whitespace; "W" stands for an article heading word (either of the   *)
(* two alternatives of the pattern), "D" for the download marker word,     *)
(* "E" for the word english in any letter case, "B" for the byte-order     *)
(* mark U+FEFF, "R" for U+200F and "L" for U+200E; "1" is a digit and      *)
(* every other token is an ordinary character.                             *)
(***************************************************************************)
EXTENDS Integers, Sequences, FiniteSets, TLC

VARIABLES
    \* ---- chunking (prepare_axolotl_cpt.py: split_by_articles, chunk_document)
    text,               \* the text handed to the function under study
    pc,                 \* position of the run
    max_chars,          \* maximum chunk length
    overlap_chars,      \* overlap length
    use_article_split,  \* whether article segmentation is attempted
    parts,              \* result of split_by_articles
    chunks,             \* result of chunk_document
    \* ---- noise-line stripping (clean_qnoon_collection.py)
    lines,              \* strip_leading_download_lines: the remaining lines
    removed,            \* strip_leading_download_lines: lines removed so far
    changed,            \* strip_leading_download_lines: the loop flag
    cleaned,            \* strip_leading_download_lines: the returned text
    run,                \* 1: first application, 2: application to its own output
    first,              \* what the first application returned
    \* ---- normalizing (prepare_axolotl_cpt.py, scan_qanoon_corpus.py)
    normalized,         \* the text the normalizer returned
    \* ---- the dataset preparation run (prepare_axolotl_cpt.py: main)
    fs,                 \* the input directory: path -> raw file content
    seed,               \* args.seed
    max_chunks_per_doc, \* args.max_chunks_per_doc
    val_ratio,          \* args.val_ratio, in halves (1 is 0.5)
    rng,                \* state of the random source
    draws,              \* uses of the random source so far, in order
    files,              \* the traversal order
    idx,                \* position of the for loop in files
    cat,                \* category of the file last looked at
    before,             \* number of chunks of the last kept file before capping
    stats,              \* the per-category counters
    all_records,        \* the collected records
    val_records,        \* the validation set
    train_records,      \* the training set
    min_chars_overrides, \* args.min_chars_overrides, the string given
    overrides,          \* what parse_overrides returned
    error,              \* the exception that ended the run, "" when none
    dry_run,            \* args.dry_run
    written,            \* the output files written so far
    \* ---- the hard split, step by step (chunk_text_paragraphwise)
    ci,                 \* position of `for c in chunks`
    start,              \* start of the current window
    hardened            \* the list being built

chunkVars == <<max_chars, overlap_chars, use_article_split, parts, chunks>>
stripVars == <<lines, removed, changed, cleaned, run, first>>
mainVars == <<fs, seed, max_chunks_per_doc, val_ratio, rng, draws, files, idx, cat,
              before, stats, all_records, val_records, train_records>>
driverVars == <<min_chars_overrides, overrides, error, dry_run, written>>
hardVars == <<ci, start, hardened>>
vars == <<text, pc, chunkVars, stripVars, normalized, mainVars, driverVars, hardVars>>

\* --------------------------------------------------------------- bounds
MaxPieces == 5      \* an input text is made of at most this many pieces
MaxChars == 3       \* largest max_chars tried
MaxStripLen == 5    \* longest text handed to the noise-line stripper
MaxNormPieces == 5  \* a text handed to a normalizer is made of at most this many pieces
MaxCap == 2         \* largest max_chunks_per_doc tried
MaxRatio == 3       \* largest val_ratio tried, in halves
MaxFiles == 2       \* most files in the input directory
MaxOverrideLen == 5 \* longest --min_chars_overrides string tried

\* -------------------------------------------------------- small helpers
Min2(a, b) == IF a <= b THEN a ELSE b
Max2(a, b) == IF a >= b THEN a ELSE b
SetMin(S) == CHOOSE x \in S : \A y \in S : x <= y
SetMax(S) == CHOOSE x \in S : \A y \in S : x >= y

RECURSIVE Flatten(_)
Flatten(ss) == IF ss = <<>> THEN <<>> ELSE Head(ss) \o Flatten(Tail(ss))

SeqsUpTo(S, n) == UNION {[1..k -> S] : k \in 0..n}

\* ------------------------------------------------ Python string helpers
WS == {" ", "\n", "\t", "\r"}
IsSpace(ch) == ch \in WS
IsDigit(ch) == ch = "1"

\* a slice bound as Python reads it: negative counts from the end, clamped
PyBound(s, i) == IF i < 0 THEN Max2(0, Len(s) + i) ELSE Min2(i, Len(s))
\* s[a:b]
PySlice(s, a, b) ==
    IF PyBound(s, a) >= PyBound(s, b) THEN <<>>
    ELSE SubSeq(s, PyBound(s, a) + 1, PyBound(s, b))
\* s[-n:] for n > 0
PyTail(s, n) == SubSeq(s, Max2(1, Len(s) - n + 1), Len(s))

\* str.strip()
Strip(s) ==
    LET nz == {i \in 1..Len(s) : ~IsSpace(s[i])}
    IN  IF nz = {} THEN <<>> ELSE SubSeq(s, SetMin(nz), SetMax(nz))

\* [p.strip() for p in pieces if p.strip()]
RECURSIVE StripNonEmpty(_)
StripNonEmpty(pieces) ==
    IF pieces = <<>> THEN <<>>
    ELSE LET p == Strip(Head(pieces))
         IN  (IF p = <<>> THEN <<>> ELSE <<p>>) \o StripNonEmpty(Tail(pieces))

\* first index >= i (1-based) holding a non-whitespace token, Len(s)+1 if none
SkipWS(s, i) ==
    LET nz == {k \in i..Len(s) : ~IsSpace(s[k])}
    IN  IF nz = {} THEN Len(s) + 1 ELSE SetMin(nz)

\* ------------------------------------------------------ split_by_articles
NoSplit == <<>>     \* the None result

\* (?m)^ matches at 0-based position p
LineStart(s, p) == p = 0 \/ (p >= 1 /\ p <= Len(s) /\ s[p] = "\n")

\* the lookahead (?=\s*(?:W)\s+\(?\d+\)?) succeeds at 0-based position p
HeadingAt(s, p) ==
    LET q == SkipWS(s, p + 1)
    IN  /\ q <= Len(s)
        /\ s[q] = "W"
        /\ q + 1 <= Len(s)
        /\ IsSpace(s[q + 1])
        /\ LET r == SkipWS(s, q + 1)
           IN  /\ r <= Len(s)
               /\ \/ IsDigit(s[r])
                  \/ s[r] = "(" /\ r + 1 <= Len(s) /\ IsDigit(s[r + 1])

\* positions of the (empty) matches of the pattern
SplitPoints(s) == {p \in 0..Len(s) : LineStart(s, p) /\ HeadingAt(s, p)}

\* re.split(pattern, text) for a pattern with empty matches only
RECURSIVE CutAt(_, _, _)
CutAt(s, from, points) ==
    IF points = {} THEN <<PySlice(s, from, Len(s))>>
    ELSE LET p == SetMin(points)
         IN  <<PySlice(s, from, p)>> \o CutAt(s, p, points \ {p})

\* variant: the parts are filtered but not stripped
ArticlePartsUnstripped(s) ==
    SelectSeq(CutAt(s, 0, SplitPoints(s)), LAMBDA p : Strip(p) # <<>>)

ArticleParts(s) == StripNonEmpty(CutAt(s, 0, SplitPoints(s)))

\* variant: a single part already counts as a split
split_by_articles_AnyPart(s) ==
    LET ps == ArticleParts(s)
    IN  IF Len(ps) > 0 THEN ps ELSE NoSplit

split_by_articles(s) ==
    LET ps == ArticleParts(s)
    IN  IF Len(ps) > 1 THEN ps ELSE NoSplit

\* ----------------------------------------------- chunk_text_paragraphwise
\* if a match of \n\s*\n starts at index i (1-based): index of its last token, else 0
ParaSepEnd(s, i) ==
    IF s[i] # "\n" THEN 0
    ELSE LET stop == SkipWS(s, i + 1)
             nls == {k \in (i + 1)..(stop - 1) : s[k] = "\n"}
         IN  IF nls = {} THEN 0 ELSE SetMax(nls)

\* re.split(r"\n\s*\n", text)
RECURSIVE SplitParagraphs(_)
SplitParagraphs(s) ==
    LET starts == {i \in 1..Len(s) : ParaSepEnd(s, i) # 0}
    IN  IF starts = {} THEN <<s>>
        ELSE LET i == SetMin(starts)
                 e == ParaSepEnd(s, i)
             IN  <<SubSeq(s, 1, i - 1)>> \o SplitParagraphs(SubSeq(s, e + 1, Len(s)))

Paragraphs(s) == StripNonEmpty(SplitParagraphs(s))

\* one iteration of "for p in paras", on the pair st = [buf, chunks]
ParaStep(st, p, M, O) ==
    IF st.buf = <<>> THEN [st EXCEPT !.buf = p]
    ELSE IF Len(st.buf) + Len(p) + 2 <= M
         THEN [st EXCEPT !.buf = st.buf \o <<"\n", "\n">> \o p]
         ELSE LET tail == IF O > 0 THEN PyTail(st.buf, O) ELSE <<>>
              IN  [buf |-> Strip(tail \o <<"\n", "\n">> \o p),
                   chunks |-> Append(st.chunks, Strip(st.buf))]

RECURSIVE ParaLoop(_, _, _, _)
ParaLoop(st, paras, M, O) ==
    IF paras = <<>> THEN st
    ELSE ParaLoop(ParaStep(st, Head(paras), M, O), Tail(paras), M, O)

\* the chunk list before the hard-split fallback
BufferedChunks(s, M, O) ==
    LET st == ParaLoop([buf |-> <<>>, chunks |-> <<>>], Paragraphs(s), M, O)
    IN  IF st.buf # <<>> THEN Append(st.chunks, Strip(st.buf)) ELSE st.chunks

\* variant: the window is one character too long
HardEndOffByOne(c, from, M) == Min2(from + M + 1, Len(c))

\* the hard-split loop: end of the window starting at start, and the next start
HardEnd(c, from, M) == Min2(from + M, Len(c))

\* variant: the next window starts where the last one ended (overlap forgotten)
HardNextStartNoOverlap(end, O) == Max2(0, end)

\* variant: the next window starts one character too far
HardNextStartSkips(end, O) == Max2(0, end - O) + 1

HardNextStart(end, O) == Max2(0, end - O)

\* the windows <<from, end>> the while loop visits, beginning at from
RECURSIVE HardWindows(_, _, _, _)
HardWindows(c, from, M, O) ==
    IF from >= Len(c) THEN <<>>
    ELSE LET end == HardEnd(c, from, M)
         IN  <<<<from, end>>>> \o
             (IF end >= Len(c) THEN <<>> ELSE HardWindows(c, HardNextStart(end, O), M, O))

HardSplit(c, M, O) ==
    LET ws == HardWindows(c, 0, M, O)
    IN  [k \in 1..Len(ws) |-> Strip(PySlice(c, ws[k][1], ws[k][2]))]

RECURSIVE Harden(_, _, _)
Harden(cs, M, O) ==
    IF cs = <<>> THEN <<>>
    ELSE (IF Len(Head(cs)) <= M THEN <<Head(cs)>> ELSE HardSplit(Head(cs), M, O))
         \o Harden(Tail(cs), M, O)

\* [c for c in hardened if c]
RECURSIVE NonEmpty(_)
NonEmpty(cs) ==
    IF cs = <<>> THEN <<>>
    ELSE (IF Head(cs) = <<>> THEN <<>> ELSE <<Head(cs)>>) \o NonEmpty(Tail(cs))

chunk_text_paragraphwise(s, M, O) == NonEmpty(Harden(BufferedChunks(s, M, O), M, O))

\* --------------------------------------------------------- chunk_document
\* variant: the spans are put back together and chunked as one text
ChunkPartsJoined(ps, M, O) ==
    chunk_text_paragraphwise(
        Flatten([i \in 1..Len(ps) |-> IF i = 1 THEN ps[i] ELSE <<"\n">> \o ps[i]]), M, O)

RECURSIVE ChunkParts(_, _, _)
ChunkParts(ps, M, O) ==
    IF ps = <<>> THEN <<>>
    ELSE (IF Len(Head(ps)) <= M THEN <<Head(ps)>>
          ELSE chunk_text_paragraphwise(Head(ps), M, O))
         \o ChunkParts(Tail(ps), M, O)

chunk_document(s, M, O, split) ==
    IF split /\ split_by_articles(s) # NoSplit
    THEN ChunkParts(split_by_articles(s), M, O)
    ELSE chunk_text_paragraphwise(s, M, O)

\* ------------------------------------------------ the chunking run: inputs
Pieces == {<<"a">>, <<" ">>, <<"\n">>, <<"W">>, <<"1">>, <<"W", " ", "(", "1", ")">>}
Texts == {Flatten(ps) : ps \in SeqsUpTo(Pieces, MaxPieces)}

ChunkIdle ==
    /\ max_chars = 0
    /\ overlap_chars = 0
    /\ use_article_split = FALSE
    /\ parts = NoSplit
    /\ chunks = <<>>

StripIdle ==
    /\ lines = <<>>
    /\ removed = 0
    /\ changed = FALSE
    /\ cleaned = <<>>
    /\ run = 0
    /\ first = <<>>

MainIdle ==
    /\ fs = <<>>
    /\ seed = 0
    /\ max_chunks_per_doc = 0
    /\ val_ratio = 0
    /\ rng = 0
    /\ draws = <<>>
    /\ files = <<>>
    /\ idx = 0
    /\ cat = ""
    /\ before = 0
    /\ stats = <<>>
    /\ all_records = <<>>
    /\ val_records = <<>>
    /\ train_records = <<>>

DriverIdle ==
    /\ min_chars_overrides = <<>>
    /\ overrides = <<>>
    /\ error = ""
    /\ dry_run = FALSE
    /\ written = {}

HardIdle ==
    /\ ci = 0
    /\ start = 0
    /\ hardened = <<>>

InitChunk ==
    /\ text \in Texts
    /\ pc = "input"
    /\ ChunkIdle
    /\ StripIdle
    /\ normalized = <<>>
    /\ MainIdle
    /\ DriverIdle
    /\ HardIdle

SplitByArticlesCall ==
    /\ pc = "input"
    /\ parts' = split_by_articles(text)
    /\ pc' = "split"
    /\ UNCHANGED <<text, max_chars, overlap_chars, use_article_split, chunks, stripVars, normalized, mainVars, driverVars, hardVars>>

ChunkDocumentCall ==
    /\ pc = "input"
    /\ \E M \in 1..MaxChars, O \in 0..(MaxChars - 1), split \in BOOLEAN :
          /\ O < M
          /\ max_chars' = M
          /\ overlap_chars' = O
          /\ use_article_split' = split
          /\ chunks' = chunk_document(text, M, O, split)
    /\ pc' = "chunked"
    /\ UNCHANGED <<text, parts, stripVars, normalized, mainVars, driverVars, hardVars>>

NextChunk == SplitByArticlesCall \/ ChunkDocumentCall

SpecChunk == InitChunk /\ [][NextChunk]_vars

\* ---------------------------------------------------- claims on chunking
NonWS(s) == SelectSeq(s, LAMBDA ch : ~IsSpace(ch))

\* C1: for every text, every maximum M >= 1 and every overlap 0 <= O < M, every
\* chunk returned by chunk_text_paragraphwise and by chunk_document (article
\* splitting on or off) is non-empty and at most M long.
C1_ChunksBounded ==
    pc = "chunked" =>
        /\ \A i \in 1..Len(chunks) :
               /\ Strip(chunks[i]) # <<>>
               /\ Len(chunks[i]) <= max_chars
        /\ LET cs == chunk_text_paragraphwise(text, max_chars, overlap_chars)
           IN  \A i \in 1..Len(cs) : Strip(cs[i]) # <<>> /\ Len(cs[i]) <= max_chars

\* an article split happened, one article was too long and was hard-split
C1_Witness ==
    /\ pc = "chunked"
    /\ use_article_split
    /\ split_by_articles(text) # NoSplit
    /\ \E i \in 1..Len(split_by_articles(text)) :
          \E j \in 1..Len(BufferedChunks(split_by_articles(text)[i], max_chars, overlap_chars)) :
             Len(BufferedChunks(split_by_articles(text)[i], max_chars, overlap_chars)[j]) > max_chars
    /\ \E i \in 1..Len(chunks) : Len(chunks[i]) = max_chars
    /\ Len(chunks) >= 3

\* a heading line start with something other than whitespace before it
HasGenuineSplit(s) ==
    \E p \in 1..Len(s) :
        LineStart(s, p) /\ HeadingAt(s, p) /\ Strip(SubSeq(s, 1, p)) # <<>>

\* C8: split_by_articles returns the ordered spans exactly when splitting at
\* heading lines yields at least two non-empty spans, i.e. when a heading line
\* starts after some non-blank text; otherwise (for a text without leading
\* whitespace: no heading line, or a single one at position 0) it returns the
\* no-split signal, and chunk_document then returns what
\* chunk_text_paragraphwise returns for the whole text.
C8_SplitOrFallback ==
    /\ pc = "split" =>
          /\ (parts # NoSplit) <=> HasGenuineSplit(text)
          /\ parts # NoSplit =>
                /\ Len(parts) >= 2
                /\ \A i \in 1..Len(parts) : parts[i] # <<>> /\ parts[i] = Strip(parts[i])
                /\ NonWS(Flatten(parts)) = NonWS(text)
          /\ (text # <<>> /\ ~IsSpace(text[1])) =>
                ((parts = NoSplit) <=> (SplitPoints(text) \subseteq {0}))
    /\ (pc = "chunked" /\ use_article_split /\ ~HasGenuineSplit(text)) =>
          chunks = chunk_text_paragraphwise(text, max_chars, overlap_chars)

\* a single heading at the very start: no split, the fallback gave two chunks
C8_Witness ==
    /\ pc = "chunked"
    /\ use_article_split
    /\ SplitPoints(text) = {0}
    /\ ~HasGenuineSplit(text)
    /\ Len(chunks) >= 2

BeginsAtHeading(sp) == sp # <<>> /\ sp[1] = "W" /\ HeadingAt(sp, 0)

\* C9 as stated: every span returned by split_by_articles begins at an
\* article heading line.
C9_EverySpanBeginsAtHeading ==
    (pc = "split" /\ parts # NoSplit) =>
        \A i \in 1..Len(parts) : BeginsAtHeading(parts[i])

\* C9 amended: every span after the first begins at an article heading; the
\* first span begins at one exactly when only whitespace precedes the first
\* heading of the text (otherwise it is the preamble); no span holds a heading
\* line start after its beginning, so every heading stays with the text that
\* follows it up to the next heading; and the spans hold the non-whitespace
\* content of the text, in order.
C9_SpansBeginAtHeadingsButPreamble ==
    (pc = "split" /\ parts # NoSplit) =>
        /\ \A i \in 2..Len(parts) : BeginsAtHeading(parts[i])
        /\ BeginsAtHeading(parts[1]) <=> BeginsAtHeading(Strip(text))
        /\ \A i \in 1..Len(parts) :
              \A p \in 1..Len(parts[i]) :
                 ~(LineStart(parts[i], p) /\ HeadingAt(parts[i], p))
        /\ NonWS(Flatten(parts)) = NonWS(text)

\* a preamble followed by two articles
C9_Witness ==
    /\ pc = "split"
    /\ Len(parts) >= 3
    /\ ~BeginsAtHeading(parts[1])
    /\ BeginsAtHeading(parts[2])
    /\ BeginsAtHeading(parts[3])

\* closed form of the hard split of buffer c: the number of windows and the
\* k-th window (k = 0, 1, ...), which starts at k * (M - O)
WindowCount(c, M, O) ==
    1 + SetMin({k \in 0..Len(c) : k * (M - O) + M >= Len(c)})
WindowK(c, M, O, k) == PySlice(c, k * (M - O), k * (M - O) + M)

RECURSIVE ExpectedChunks(_, _, _)
ExpectedChunks(bufs, M, O) ==
    IF bufs = <<>> THEN <<>>
    ELSE LET c == Head(bufs)
         IN  (IF Len(c) <= M THEN <<c>>
              ELSE [k \in 1..WindowCount(c, M, O) |-> Strip(WindowK(c, M, O, k - 1))])
             \o ExpectedChunks(Tail(bufs), M, O)

\* C10 as stated: when a buffer longer than M is hard-split with 0 < O < M,
\* the emitted chunks are the windows [k*(M-O), k*(M-O)+M) of the buffer, all
\* but the last M long, and the last O characters of each emitted chunk are
\* the first O characters of the next.
C10_EmittedChunksAreExactWindows ==
    (pc = "chunked" /\ ~use_article_split /\ overlap_chars > 0) =>
        LET bufs == BufferedChunks(text, max_chars, overlap_chars)
        IN  (Len(bufs) = 1 /\ Len(bufs[1]) > max_chars) =>
               LET c == bufs[1]
                   n == WindowCount(c, max_chars, overlap_chars)
               IN  /\ Len(chunks) = n
                   /\ \A k \in 1..n :
                         chunks[k] = WindowK(c, max_chars, overlap_chars, k - 1)
                   /\ \A k \in 1..(n - 1) :
                         /\ Len(chunks[k]) = max_chars
                         /\ PyTail(chunks[k], overlap_chars)
                              = SubSeq(chunks[k + 1], 1, overlap_chars)

\* C10 amended: the windows of a hard split are [k*(M-O), k*(M-O)+M), all but
\* the last exactly M long and each sharing its last O characters with the
\* start of the next; every window is emitted with its leading and trailing
\* whitespace trimmed, and a window of whitespace only is dropped.  A buffer
\* of length L with M < L <= 2M - O gives the two windows [0,M) and [M-O,L).
C10_ChunksAreTrimmedWindows ==
    (pc = "chunked" /\ ~use_article_split /\ overlap_chars > 0) =>
        LET bufs == BufferedChunks(text, max_chars, overlap_chars)
        IN  /\ chunks = NonEmpty(ExpectedChunks(bufs, max_chars, overlap_chars))
            /\ \A i \in 1..Len(bufs) :
                  Len(bufs[i]) > max_chars =>
                     LET c == bufs[i]
                         n == WindowCount(c, max_chars, overlap_chars)
                     IN  /\ \A k \in 0..(n - 2) :
                               /\ Len(WindowK(c, max_chars, overlap_chars, k)) = max_chars
                               /\ PyTail(WindowK(c, max_chars, overlap_chars, k), overlap_chars)
                                    = SubSeq(WindowK(c, max_chars, overlap_chars, k + 1),
                                             1, overlap_chars)
                         /\ Len(c) <= 2 * max_chars - overlap_chars => n = 2

\* a single buffer hard-split into three windows, one of them cut short by
\* the trimming
C10_Witness ==
    /\ pc = "chunked"
    /\ ~use_article_split
    /\ overlap_chars > 0
    /\ LET bufs == BufferedChunks(text, max_chars, overlap_chars)
       IN  /\ Len(bufs) = 1
           /\ Len(bufs[1]) > max_chars
           /\ WindowCount(bufs[1], max_chars, overlap_chars) >= 3
           /\ Len(chunks) >= 2
           /\ \E k \in 1..Len(chunks) :
                 chunks[k] # WindowK(bufs[1], max_chars, overlap_chars, k - 1)

\* --------------------- chunk_text_paragraphwise: the hard split, step by step
\* the texts handed to the chunker here
HardTexts == SeqsUpTo({"a", " ", "\n"}, MaxPieces)

RECURSIVE SumLen(_)
SumLen(cs) == IF cs = <<>> THEN 0 ELSE Len(Head(cs)) + SumLen(Tail(cs))

\* a hard split that ends appends fewer windows than the buffers have
\* characters (each window starts further on than the one before); a list
\* grown past that is the loop repeating a window, and the model stops there
HardenedCap == SumLen(chunks) + 1

InitHard ==
    /\ text \in HardTexts
    /\ max_chars \in 1..MaxChars
    /\ overlap_chars \in (-1)..MaxChars
    /\ pc = "chunk_text_paragraphwise"
    /\ use_article_split = FALSE
    /\ parts = NoSplit
    /\ chunks = <<>>
    /\ StripIdle
    /\ normalized = <<>>
    /\ MainIdle
    /\ DriverIdle
    /\ HardIdle

hardFrame == <<text, max_chars, overlap_chars, use_article_split, parts, stripVars,
               normalized, mainVars, driverVars>>

\* the paragraph loop: chunks is the list of buffers; hardened = []
BufferParagraphs ==
    /\ pc = "chunk_text_paragraphwise"
    /\ chunks' = BufferedChunks(text, max_chars, overlap_chars)
    /\ hardened' = <<>>
    /\ ci' = 1
    /\ pc' = "for_c"
    /\ UNCHANGED <<hardFrame, start>>

\* for c in chunks: if len(c) <= max_chars: hardened.append(c)
HardenShort ==
    /\ pc = "for_c"
    /\ ci <= Len(chunks)
    /\ Len(chunks[ci]) <= max_chars
    /\ hardened' = Append(hardened, chunks[ci])
    /\ ci' = ci + 1
    /\ UNCHANGED <<hardFrame, chunks, start, pc>>

\* else: start = 0
HardenLong ==
    /\ pc = "for_c"
    /\ ci <= Len(chunks)
    /\ Len(chunks[ci]) > max_chars
    /\ start' = 0
    /\ pc' = "while"
    /\ UNCHANGED <<hardFrame, chunks, ci, hardened>>

\* one pass of the while loop: a window is appended; break at the end of c,
\* otherwise the next start is computed
HardWindow ==
    /\ pc = "while"
    /\ start < Len(chunks[ci])
    /\ Len(hardened) < HardenedCap
    /\ LET c == chunks[ci]
           end == HardEnd(c, start, max_chars)
       IN  /\ hardened' = Append(hardened, Strip(PySlice(c, start, end)))
           /\ IF end >= Len(c)
              THEN /\ ci' = ci + 1
                   /\ pc' = "for_c"
                   /\ start' = start
              ELSE /\ start' = HardNextStart(end, overlap_chars)
                   /\ UNCHANGED <<ci, pc>>
    /\ UNCHANGED <<hardFrame, chunks>>

\* while start < len(c) is false: the loop ends
HardWhileExit ==
    /\ pc = "while"
    /\ start >= Len(chunks[ci])
    /\ ci' = ci + 1
    /\ pc' = "for_c"
    /\ UNCHANGED <<hardFrame, chunks, start, hardened>>

\* return [c for c in hardened if c]
HardReturn ==
    /\ pc = "for_c"
    /\ ci > Len(chunks)
    /\ hardened' = NonEmpty(hardened)
    /\ pc' = "returned"
    /\ UNCHANGED <<hardFrame, chunks, ci, start>>

NextHard ==
    \/ BufferParagraphs \/ HardenShort \/ HardenLong
    \/ HardWindow \/ HardWhileExit \/ HardReturn

SpecHard == InitHard /\ [][NextHard]_vars

\* ------------------------------------------------ claims on the hard split
\* the step-by-step loop returns what chunk_text_paragraphwise computes
HardStepsAgree ==
    (pc = "returned" /\ overlap_chars < max_chars /\ overlap_chars >= 0)
        => hardened = chunk_text_paragraphwise(text, max_chars, overlap_chars)

\* C11: the hard-split loop ends for every text, every maximum M >= 1 and
\* every overlap O, O >= M included: each pass that does not leave the loop
\* moves the window start forward, and when O >= M at least to the end of the
\* window just emitted, so no window is repeated.
C11_WindowStartAdvances ==
    [][(pc = "while" /\ pc' = "while") =>
          /\ start' > start
          /\ overlap_chars >= max_chars
                 => start' >= HardEnd(chunks[ci], start, max_chars)
    ]_vars

\* the model stops a hard split only when the overlap is not smaller than the
\* maximum: with a smaller overlap every run reaches the return
HardCapOnlyStopsRepeats ==
    (pc = "while" /\ start < Len(chunks[ci]) /\ Len(hardened) >= HardenedCap)
        => overlap_chars >= max_chars

\* a buffer on which the loop has appended the same window over and over
C11_RepeatedWindow ==
    /\ pc = "while"
    /\ overlap_chars >= max_chars
    /\ start = 0
    /\ Len(hardened) >= HardenedCap
    /\ \A i \in 1..Len(hardened) : hardened[i] = hardened[1]

\* ------------------------------------------ claims on chunk_document
\* a occurs in b as a run of consecutive characters
IsSubstring(a, b) == \E k \in 0..(Len(b) - Len(a)) : SubSeq(b, k + 1, k + Len(a)) = a

\* the chunks of one span: the span itself when it fits, else what the
\* paragraph chunker makes of that span alone
SpanChunks(sp, M, O) ==
    IF Len(sp) <= M THEN <<sp>> ELSE chunk_text_paragraphwise(sp, M, O)

\* C15: when the article segmentation succeeds, the result of chunk_document is
\* the concatenation, in article order, of the per-span results: a span no
\* longer than the maximum gives one chunk equal to the span, a longer span
\* gives the paragraph chunker's chunks for that span alone; so every chunk
\* holds text of one span only.
C15_ConcatenationOfSpanResults ==
    (pc = "chunked" /\ use_article_split /\ split_by_articles(text) # NoSplit) =>
        LET ps == split_by_articles(text)
            per == [i \in 1..Len(ps) |-> SpanChunks(ps[i], max_chars, overlap_chars)]
            offset(i) == SumLen([j \in 1..(i - 1) |-> per[j]])
        IN  /\ chunks = Flatten(per)
            /\ Len(chunks) = SumLen(per)
            /\ \A i \in 1..Len(ps) : \A k \in 1..Len(per[i]) :
                  /\ chunks[offset(i) + k] = per[i][k]
                  /\ IsSubstring(NonWS(chunks[offset(i) + k]), NonWS(ps[i]))
                  /\ Len(ps[i]) <= max_chars =>
                        (Len(per[i]) = 1 /\ chunks[offset(i) + k] = ps[i])

\* two spans, the first short enough to be one chunk, the second hard-split
C15_Witness ==
    /\ pc = "chunked"
    /\ use_article_split
    /\ split_by_articles(text) # NoSplit
    /\ Len(split_by_articles(text)) = 2
    /\ Len(split_by_articles(text)[1]) <= max_chars
    /\ Len(split_by_articles(text)[2]) > max_chars
    /\ chunks[1] = split_by_articles(text)[1]
    /\ Len(chunks) >= 3

\* ---------------------------------------- claims on content preservation
\* the chunks cs, read in order, cover target without a gap: each is a run of
\* consecutive characters of target that starts no earlier than the one before
\* it (lo) and no later than where the covered part ends (hi), and the last
\* covered position is the end of target
RECURSIVE Covers(_, _, _, _)
Covers(cs, target, lo, hi) ==
    IF cs = <<>> THEN hi = Len(target)
    ELSE \E o \in lo..hi :
            /\ o + Len(Head(cs)) <= Len(target)
            /\ SubSeq(target, o + 1, o + Len(Head(cs))) = Head(cs)
            /\ Covers(Tail(cs), target, o, Max2(hi, o + Len(Head(cs))))

\* C18: for every text, M >= 1 and 0 <= O < M the paragraph chunker loses no
\* content: the non-whitespace characters of the chunks, taken in order and
\* allowing overlaps, cover every non-whitespace character of the text, in
\* order and without a gap, whether a buffer was emitted at a paragraph
\* boundary or hard-split.
C18_NoContentLost ==
    (pc = "chunked" /\ ~use_article_split) =>
        /\ chunks = chunk_text_paragraphwise(text, max_chars, overlap_chars)
        /\ Covers([k \in 1..Len(chunks) |-> NonWS(chunks[k])], NonWS(text), 0, 0)

\* two paragraphs that each fit, a second buffer that is too long only because
\* of the overlap seed, hard-split
C18_Witness ==
    /\ pc = "chunked"
    /\ ~use_article_split
    /\ overlap_chars >= 1
    /\ Len(Paragraphs(text)) = 2
    /\ \A i \in 1..2 : Len(Paragraphs(text)[i]) <= max_chars
    /\ Len(BufferedChunks(text, max_chars, overlap_chars)) = 2
    /\ Len(BufferedChunks(text, max_chars, overlap_chars)[2]) > max_chars
    /\ Len(chunks) >= 3

\* ------------------------------------------ strip_leading_download_lines
\* text.split("\n")
RECURSIVE SplitLines(_)
SplitLines(s) ==
    LET nl == {i \in 1..Len(s) : s[i] = "\n"}
    IN  IF nl = {} THEN <<s>>
        ELSE <<SubSeq(s, 1, SetMin(nl) - 1)>>
             \o SplitLines(SubSeq(s, SetMin(nl) + 1, Len(s)))

\* "\n".join(lines)
RECURSIVE JoinLines(_)
JoinLines(ls) ==
    IF ls = <<>> THEN <<>>
    ELSE IF Len(ls) = 1 THEN ls[1]
    ELSE ls[1] \o <<"\n">> \o JoinLines(Tail(ls))

is_english_line(l) == Strip(l) = <<"E">>
is_download_line(l) == Strip(l) = <<"D">>
is_blank_line(l) == Strip(l) = <<>>

\* lines and lines[0].strip() == ""
HeadBlank(ls) == ls # <<>> /\ is_blank_line(ls[1])

\* variant: whatever follows a download line is removed with it
FollowsDownloadAny(ls) == ls # <<>>

\* lines and (is_english_line(lines[0]) or is_download_line(lines[0]))
FollowsDownload(ls) ==
    ls # <<>> /\ (is_english_line(ls[1]) \/ is_download_line(ls[1]))

StripTexts == SeqsUpTo({"a", " ", "\n", "D", "E"}, MaxStripLen)

InitStrip ==
    /\ text \in StripTexts
    /\ pc = "strip_call"
    /\ ChunkIdle
    /\ lines = <<>>
    /\ removed = 0
    /\ changed = FALSE
    /\ cleaned = <<>>
    /\ run = 1
    /\ first = <<>>
    /\ normalized = <<>>
    /\ MainIdle
    /\ DriverIdle
    /\ HardIdle

\* removed = 0; lines = text.split("\n")
StripBegin ==
    /\ pc = "strip_call"
    /\ removed' = 0
    /\ lines' = SplitLines(text)
    /\ pc' = "lead"
    /\ UNCHANGED <<text, changed, cleaned, run, first, chunkVars, normalized, mainVars, driverVars, hardVars>>

\* the first while loop: one leading empty line is popped
LeadBlank ==
    /\ pc = "lead"
    /\ HeadBlank(lines)
    /\ lines' = Tail(lines)
    /\ removed' = removed + 1
    /\ UNCHANGED <<text, pc, changed, cleaned, run, first, chunkVars, normalized, mainVars, driverVars, hardVars>>

\* the first while loop ends; changed = True
LeadDone ==
    /\ pc = "lead"
    /\ ~HeadBlank(lines)
    /\ changed' = TRUE
    /\ pc' = "while"
    /\ UNCHANGED <<text, lines, removed, cleaned, run, first, chunkVars, normalized, mainVars, driverVars, hardVars>>

\* while changed: changed = False
WhileChanged ==
    /\ pc = "while"
    /\ IF changed
       THEN changed' = FALSE /\ pc' = "trim"
       ELSE changed' = changed /\ pc' = "join"
    /\ UNCHANGED <<text, lines, removed, cleaned, run, first, chunkVars, normalized, mainVars, driverVars, hardVars>>

\* the inner while loop: one leading empty line is popped
TrimBlank ==
    /\ pc = "trim"
    /\ HeadBlank(lines)
    /\ lines' = Tail(lines)
    /\ removed' = removed + 1
    /\ changed' = TRUE
    /\ UNCHANGED <<text, pc, cleaned, run, first, chunkVars, normalized, mainVars, driverVars, hardVars>>

\* the inner while loop ends; if not lines: break
TrimDone ==
    /\ pc = "trim"
    /\ ~HeadBlank(lines)
    /\ pc' = IF lines = <<>> THEN "join" ELSE "head"
    /\ UNCHANGED <<text, lines, removed, changed, cleaned, run, first, chunkVars, normalized, mainVars, driverVars, hardVars>>

\* the first line is the download marker: it is popped
HeadDownload ==
    /\ pc = "head"
    /\ is_download_line(lines[1])
    /\ lines' = Tail(lines)
    /\ removed' = removed + 1
    /\ changed' = TRUE
    /\ pc' = "after_download"
    /\ UNCHANGED <<text, cleaned, run, first, chunkVars, normalized, mainVars, driverVars, hardVars>>

\* after the download marker: one empty line is popped
AfterDownloadBlank ==
    /\ pc = "after_download"
    /\ HeadBlank(lines)
    /\ lines' = Tail(lines)
    /\ removed' = removed + 1
    /\ UNCHANGED <<text, pc, changed, cleaned, run, first, chunkVars, normalized, mainVars, driverVars, hardVars>>

\* after the download marker: a following english or download line is popped; continue
AfterDownloadNext ==
    /\ pc = "after_download"
    /\ ~HeadBlank(lines)
    /\ IF FollowsDownload(lines)
       THEN lines' = Tail(lines) /\ removed' = removed + 1
       ELSE UNCHANGED <<lines, removed>>
    /\ pc' = "while"
    /\ UNCHANGED <<text, changed, cleaned, run, first, chunkVars, normalized, mainVars, driverVars, hardVars>>

\* the first line is the english marker alone: it is popped; continue
HeadEnglish ==
    /\ pc = "head"
    /\ ~is_download_line(lines[1])
    /\ is_english_line(lines[1])
    /\ lines' = Tail(lines)
    /\ removed' = removed + 1
    /\ changed' = TRUE
    /\ pc' = "while"
    /\ UNCHANGED <<text, cleaned, run, first, chunkVars, normalized, mainVars, driverVars, hardVars>>

\* the first line is neither: the loop body ends
HeadKeep ==
    /\ pc = "head"
    /\ ~is_download_line(lines[1])
    /\ ~is_english_line(lines[1])
    /\ pc' = "while"
    /\ UNCHANGED <<text, lines, removed, changed, cleaned, run, first, chunkVars, normalized, mainVars, driverVars, hardVars>>

\* cleaned = "\n".join(lines).strip(); return cleaned, removed
StripReturn ==
    /\ pc = "join"
    /\ cleaned' = Strip(JoinLines(lines))
    /\ pc' = "returned"
    /\ UNCHANGED <<text, lines, removed, changed, run, first, chunkVars, normalized, mainVars, driverVars, hardVars>>

\* the function is applied again, to the cleaned text it returned
StripAgain ==
    /\ pc = "returned"
    /\ run = 1
    /\ first' = <<cleaned, removed>>
    /\ text' = cleaned
    /\ run' = 2
    /\ pc' = "strip_call"
    /\ UNCHANGED <<lines, removed, changed, cleaned, chunkVars, normalized, mainVars, driverVars, hardVars>>

NextStrip ==
    \/ StripBegin \/ LeadBlank \/ LeadDone \/ WhileChanged \/ TrimBlank \/ TrimDone
    \/ HeadDownload \/ AfterDownloadBlank \/ AfterDownloadNext \/ HeadEnglish
    \/ HeadKeep \/ StripReturn \/ StripAgain

SpecStrip == InitStrip /\ [][NextStrip]_vars

\* ----------------------------------------- claims on noise-line stripping
\* C5: applying strip_leading_download_lines to the cleaned text it returned
\* yields the same cleaned text and a removed-line count of 0, for every input
\* text, texts made only of noise lines included.
C5_Idempotent ==
    (pc = "returned" /\ run = 2) => (cleaned = first[1] /\ removed = 0)

\* the cleaned text alone is a fixed point
C5_CleanedTextStable ==
    (pc = "returned" /\ run = 2) => cleaned = first[1]

Removable(l) == is_blank_line(l) \/ is_download_line(l) \/ is_english_line(l)

InStripLoop == pc \in {"lead", "while", "trim", "head", "after_download", "join", "returned"}

\* C6: the stripper removes only a prefix of the lines: at every step the
\* remaining lines are the input lines without their first `removed` ones,
\* every removed line is blank, a download marker or an english marker, nothing
\* is removed past a line that is none of these (later marker lines stay), and
\* the result is the remaining lines joined, trimmed of leading and trailing
\* whitespace only.
C6_OnlyLeadingLinesRemoved ==
    InStripLoop =>
        LET all == SplitLines(text)
        IN  /\ removed <= Len(all)
            /\ lines = SubSeq(all, removed + 1, Len(all))
            /\ \A i \in 1..removed : Removable(all[i])
            /\ pc = "returned" =>
                  /\ cleaned = Strip(JoinLines(SubSeq(all, removed + 1, Len(all))))
                  /\ lines # <<>> => ~Removable(lines[1])

\* noise lines were removed and a marker line further down was kept
C6_Witness ==
    /\ pc = "returned"
    /\ run = 1
    /\ removed >= 1
    /\ \E i \in 1..removed : is_download_line(SplitLines(text)[i])
    /\ Len(lines) >= 2
    /\ \E i \in 2..Len(lines) : is_download_line(lines[i]) \/ is_english_line(lines[i])
    /\ \E i \in 1..Len(cleaned) : cleaned[i] \in {"D", "E"}

\* ------------------------------------ normalize_newlines, normalize_text
\* text.replace(t, "")
RemoveToken(s, t) == SelectSeq(s, LAMBDA ch : ch # t)

\* text.replace("\r\n", "\n")
RECURSIVE ReplaceCRLF(_)
ReplaceCRLF(s) ==
    IF s = <<>> THEN <<>>
    ELSE IF Len(s) >= 2 /\ s[1] = "\r" /\ s[2] = "\n"
         THEN <<"\n">> \o ReplaceCRLF(SubSeq(s, 3, Len(s)))
         ELSE <<s[1]>> \o ReplaceCRLF(Tail(s))

\* text.replace("\r", "\n")
ReplaceCR(s) == [i \in 1..Len(s) |-> IF s[i] = "\r" THEN "\n" ELSE s[i]]

\* re.sub(r"[ \t]+", " ", text)
RECURSIVE CollapseSpaces(_)
CollapseSpaces(s) ==
    IF s = <<>> THEN <<>>
    ELSE IF s[1] \in {" ", "\t"}
         THEN LET other == {k \in 1..Len(s) : s[k] \notin {" ", "\t"}}
              IN  <<" ">> \o (IF other = {} THEN <<>>
                              ELSE CollapseSpaces(SubSeq(s, SetMin(other), Len(s))))
         ELSE <<s[1]>> \o CollapseSpaces(Tail(s))

\* re.sub(r"\n{3,}", "\n\n", text)
RECURSIVE CollapseNewlines(_)
CollapseNewlines(s) ==
    IF s = <<>> THEN <<>>
    ELSE IF s[1] = "\n"
         THEN LET other == {k \in 1..Len(s) : s[k] # "\n"}
                  n == IF other = {} THEN Len(s) ELSE SetMin(other) - 1
              IN  (IF n >= 3 THEN <<"\n", "\n">> ELSE SubSeq(s, 1, n))
                  \o CollapseNewlines(SubSeq(s, n + 1, Len(s)))
         ELSE <<s[1]>> \o CollapseNewlines(Tail(s))

\* prepare_axolotl_cpt.normalize_newlines
normalize_newlines(s) ==
    LET t1 == RemoveToken(s, "B")
        t2 == ReplaceCR(ReplaceCRLF(t1))
        t3 == RemoveToken(RemoveToken(t2, "R"), "L")
        t4 == CollapseSpaces(t3)
        t5 == CollapseNewlines(t4)
    IN  Strip(t5)

\* scan_qanoon_corpus.normalize_text
normalize_text(s) ==
    LET t1 == RemoveToken(RemoveToken(RemoveToken(s, "B"), "R"), "L")
        t2 == CollapseSpaces(t1)
        t3 == CollapseNewlines(t2)
    IN  Strip(t3)

NormPieces ==
    {<<"a">>, <<" ">>, <<"\t">>, <<"\n">>, <<"\r">>, <<"B">>, <<"R">>, <<"L">>,
     <<"\n", "\n">>}
NormTexts == {Flatten(ps) : ps \in SeqsUpTo(NormPieces, MaxNormPieces)}

InitNorm ==
    /\ text \in NormTexts
    /\ pc = "raw"
    /\ ChunkIdle
    /\ StripIdle
    /\ normalized = <<>>
    /\ MainIdle
    /\ DriverIdle
    /\ HardIdle

NormalizeNewlinesCall ==
    /\ pc = "raw"
    /\ normalized' = normalize_newlines(text)
    /\ pc' = "normalize_newlines"
    /\ UNCHANGED <<text, chunkVars, stripVars, mainVars, driverVars, hardVars>>

NormalizeTextCall ==
    /\ pc = "raw"
    /\ normalized' = normalize_text(text)
    /\ pc' = "normalize_text"
    /\ UNCHANGED <<text, chunkVars, stripVars, mainVars, driverVars, hardVars>>

NextNorm == NormalizeNewlinesCall \/ NormalizeTextCall

SpecNorm == InitNorm /\ [][NextNorm]_vars

\* ---------------------------------------------- claims on the normalizer
Normalized == pc \in {"normalize_newlines", "normalize_text"}

\* a run of n consecutive lines that are empty or hold only whitespace
HasBlankRun(s, n) ==
    LET ls == SplitLines(s)
    IN  \E i \in 1..(Len(ls) - n + 1) :
           \A j \in i..(i + n - 1) : is_blank_line(ls[j])

NoMarks(s) == \A i \in 1..Len(s) : s[i] \notin {"B", "R", "L"}

\* C7: the normalizer output holds no byte-order mark, no directional mark and
\* no run of 3 or more consecutive blank lines (empty or whitespace-only), and
\* has no leading or trailing whitespace.
C7_NormalizedClean ==
    Normalized =>
        /\ NoMarks(normalized)
        /\ ~HasBlankRun(normalized, 3)
        /\ normalized = Strip(normalized)

\* what the output does satisfy: no mark, no three newlines in a row, trimmed
C7_NoMarksNoTripleNewline ==
    Normalized =>
        /\ NoMarks(normalized)
        /\ \A i \in 1..(Len(normalized) - 2) :
              ~(normalized[i] = "\n" /\ normalized[i + 1] = "\n" /\ normalized[i + 2] = "\n")
        /\ normalized = Strip(normalized)

\* ------------------------------------------------ main: helpers of the run
\* has_useful_content: len(re.sub(r"\s+", "", text)) >= min_chars
has_useful_content(s, min_chars) ==
    Len(SelectSeq(s, LAMBDA ch : ~IsSpace(ch))) >= min_chars

\* infer_category: the first segment of the path under the input root
infer_category(path) == path[1]

\* order of the category folder names as strings
CatRank(c) == CASE c = "AD" -> 1 [] c = "RD" -> 2 [] c = "RO" -> 3

\* comparison of two paths (Path.__lt__: by parts)
PathLess(a, b) ==
    \/ CatRank(a[1]) < CatRank(b[1])
    \/ a[1] = b[1] /\ a[2] < b[2]

RECURSIVE InsertPath(_, _)
InsertPath(sorted, x) ==
    IF sorted = <<>> THEN <<x>>
    ELSE IF PathLess(x, Head(sorted)) THEN <<x>> \o sorted
    ELSE <<Head(sorted)>> \o InsertPath(Tail(sorted), x)

\* sorted(paths)
RECURSIVE SortPaths(_)
SortPaths(ps) ==
    IF ps = <<>> THEN <<>> ELSE InsertPath(SortPaths(Tail(ps)), Head(ps))

RECURSIVE InsertInt(_, _)
InsertInt(sorted, x) ==
    IF sorted = <<>> THEN <<x>>
    ELSE IF x < Head(sorted) THEN <<x>> \o sorted
    ELSE <<Head(sorted)>> \o InsertInt(Tail(sorted), x)

\* sorted(idxs)
RECURSIVE SortInts(_)
SortInts(xs) ==
    IF xs = <<>> THEN <<>> ELSE InsertInt(SortInts(Tail(xs)), Head(xs))

\* variant: the files are taken in the order the directory walk yields them
iter_text_files_Unsorted(walk) == walk

\* iter_text_files: sorted(files found by the directory walk)
iter_text_files(walk) == SortPaths(walk)

\* the orders in which the directory walk may yield the files of directory d
WalkOrders(d) ==
    {w \in [1..Cardinality(DOMAIN d) -> DOMAIN d] :
        \A i, j \in 1..Cardinality(DOMAIN d) : i # j => w[i] # w[j]}

\* the random source: random.Random(seed) and one step of the generator (a
\* deterministic generator standing for the library's)
RandSeed(sd) == sd % 16
RandNext(s) == (5 * s + 3) % 16

\* rng.sample(range(n), k): the pool algorithm, from state s
RECURSIVE SamplePool(_, _, _, _, _, _)
SamplePool(pool, s, n, i, k, result) ==
    IF i >= k THEN [result |-> result, rng |-> s]
    ELSE LET s2 == RandNext(s)
             j == s2 % (n - i)
         IN  SamplePool([pool EXCEPT ![j + 1] = pool[n - i]], s2, n, i + 1, k,
                        Append(result, pool[j + 1]))

sample(s, n, k) == SamplePool([i \in 1..n |-> i - 1], s, n, 0, k, <<>>)

\* rng.shuffle(x): for i in reversed(range(1, len(x))): swap x[i], x[randbelow(i+1)]
RECURSIVE ShuffleFrom(_, _, _)
ShuffleFrom(x, s, i) ==
    IF i < 1 THEN [x |-> x, rng |-> s]
    ELSE LET s2 == RandNext(s)
             j == s2 % (i + 1)
         IN  ShuffleFrom([x EXCEPT ![i + 1] = x[j + 1], ![j + 1] = x[i + 1]], s2, i - 1)

shuffle(x, s) == ShuffleFrom(x, s, Len(x) - 1)

\* variant: the sampled indices are used in the order drawn
maybe_cap_chunks_Unsorted(cs, cap, s) ==
    IF cap <= 0 \/ Len(cs) <= cap THEN [chunks |-> cs, rng |-> s, drew |-> FALSE]
    ELSE LET r == sample(s, Len(cs), cap)
         IN  [chunks |-> [i \in 1..cap |-> cs[r.result[i] + 1]], rng |-> r.rng, drew |-> TRUE]

\* maybe_cap_chunks; drew tells whether the random source was used
maybe_cap_chunks(cs, cap, s) ==
    IF cap <= 0 \/ Len(cs) <= cap THEN [chunks |-> cs, rng |-> s, drew |-> FALSE]
    ELSE LET r == sample(s, Len(cs), cap)
             idxs == SortInts(r.result)
         IN  [chunks |-> [i \in 1..cap |-> cs[idxs[i] + 1]], rng |-> r.rng, drew |-> TRUE]

\* int(x) for the fraction n/d, d > 0: truncation toward zero
IntTrunc(n, d) == IF n >= 0 THEN n \div d ELSE -((-n) \div d)

\* variant: no minimum of one validation record
val_size_NoMinimum(total, ratio) == IF total > 0 THEN IntTrunc(total * ratio, 2) ELSE 0

\* val_size = max(1, int(len(all_records) * args.val_ratio)) if all_records else 0
val_size(total, ratio) == IF total > 0 THEN Max2(1, IntTrunc(total * ratio, 2)) ELSE 0

\* --keep_categories, --min_chars_default, --min_chars_overrides, scaled down
KeepSet == {"AD", "RD"}
MinCharsOverrides == [c \in {"RD"} |-> 2]
\* variant: the overrides are ignored
choose_min_chars_DefaultOnly(c) == 1

choose_min_chars(c) == IF c \in DOMAIN MinCharsOverrides THEN MinCharsOverrides[c] ELSE 1

\* use_article_split=args.use_article_split and (cat == "RD" or cat == "FATWA" or cat == "AD")
SplitFor(c) == use_article_split /\ c \in {"RD", "FATWA", "AD"}

\* build_header with include_header set: label, path, part i of n
build_header(c, path, i, n) == <<c, path, i, n>>

\* variant: only the first chunk of a document becomes a record
RecordsOfFirstOnly(c, path, cs, next) ==
    [i \in 1..Min2(1, Len(cs)) |->
        [id |-> next, header |-> build_header(c, path, i, Len(cs)), text |-> cs[i]]]

\* the records of one document, numbered from next on
RecordsOf(c, path, cs, next) ==
    [i \in 1..Len(cs) |->
        [id |-> next + i - 1, header |-> build_header(c, path, i, Len(cs)), text |-> cs[i]]]

ZeroStats ==
    [files_seen |-> 0, files_kept |-> 0, files_discarded |-> 0,
     chunks_written |-> 0, chunks_capped_away |-> 0]

\* ------------------------------------------------------ the run: inputs
Paths == {<<"AD", 1>>, <<"AD", 2>>, <<"RD", 1>>, <<"RO", 1>>}
DocTexts ==
    {<<>>, <<"B", "a", "\r", "\n">>, <<"a", "b", "1", "(">>,
     <<"W", " ", "1", "\n", "W", " ", "(", "1", ")">>}
\* the values tried for --seed
Seeds == {0, 1}
Directories ==
    UNION {[ps -> DocTexts] : ps \in {q \in SUBSET Paths : Cardinality(q) <= MaxFiles}}

Init ==
    /\ fs \in Directories
    /\ seed \in Seeds
    /\ max_chunks_per_doc \in 0..MaxCap
    /\ val_ratio \in (-1)..MaxRatio
    /\ use_article_split \in BOOLEAN
    /\ max_chars = 2
    /\ overlap_chars = 1
    /\ pc = "main"
    /\ run = 1
    /\ first = <<>>
    /\ text = <<>>
    /\ parts = NoSplit
    /\ chunks = <<>>
    /\ lines = <<>>
    /\ removed = 0
    /\ changed = FALSE
    /\ cleaned = <<>>
    /\ normalized = <<>>
    /\ rng = 0
    /\ draws = <<>>
    /\ files = <<>>
    /\ idx = 0
    /\ cat = ""
    /\ before = 0
    /\ stats = <<>>
    /\ all_records = <<>>
    /\ val_records = <<>>
    /\ train_records = <<>>
    /\ DriverIdle
    /\ HardIdle

mainFrame == <<fs, seed, max_chunks_per_doc, val_ratio, max_chars, overlap_chars,
               use_article_split, parts, lines, removed, changed, cleaned, normalized,
               driverVars, hardVars>>

\* main up to the for loop: the random source, the counters, the traversal order
Setup ==
    /\ pc = "main"
    /\ rng' = RandSeed(seed)
    /\ stats' = [c \in KeepSet |-> ZeroStats]
    /\ all_records' = <<>>
    /\ \E walk \in WalkOrders(fs) : files' = iter_text_files(walk)
    /\ idx' = 1
    /\ pc' = "for"
    /\ UNCHANGED <<mainFrame, run, first, text, chunks, draws, cat, before,
                   val_records, train_records>>

AtFile == pc \in {"for", "skipped", "discarded", "kept"} /\ idx <= Len(files)

\* a file of a category that is not kept: continue
SkipFile ==
    /\ AtFile
    /\ infer_category(files[idx]) \notin KeepSet
    /\ cat' = infer_category(files[idx])
    /\ idx' = idx + 1
    /\ pc' = "skipped"
    /\ UNCHANGED <<mainFrame, run, first, text, chunks, rng, draws, files, before, stats,
                   all_records, val_records, train_records>>

\* fp.read_text raises (the file cannot be opened or read): the file is already
\* counted as seen, nothing catches the exception, and main ends with it
ReadFails ==
    /\ AtFile
    /\ infer_category(files[idx]) \in KeepSet
    /\ cat' = infer_category(files[idx])
    /\ stats' = [stats EXCEPT ![infer_category(files[idx])].files_seen = @ + 1]
    /\ error' = "OSError"
    /\ pc' = "aborted"
    /\ UNCHANGED <<fs, seed, max_chunks_per_doc, val_ratio, max_chars, overlap_chars,
                   use_article_split, parts, lines, removed, changed, cleaned, normalized,
                   min_chars_overrides, overrides, dry_run, written, hardVars,
                   run, first, text, chunks, rng, draws, files, idx, before,
                   all_records, val_records, train_records>>

\* a file with too little content: counted as seen and discarded
DiscardFile ==
    /\ AtFile
    /\ LET c == infer_category(files[idx])
           t == normalize_newlines(fs[files[idx]])
       IN  /\ c \in KeepSet
           /\ ~has_useful_content(t, choose_min_chars(c))
           /\ cat' = c
           /\ text' = t
           /\ stats' = [stats EXCEPT ![c].files_seen = @ + 1, ![c].files_discarded = @ + 1]
    /\ idx' = idx + 1
    /\ pc' = "discarded"
    /\ UNCHANGED <<mainFrame, run, first, chunks, rng, draws, files, before,
                   all_records, val_records, train_records>>

\* a file that is kept: chunked, capped, its records collected
KeepFile ==
    /\ AtFile
    /\ LET c == infer_category(files[idx])
           t == normalize_newlines(fs[files[idx]])
           cs == chunk_document(t, max_chars, overlap_chars, SplitFor(c))
           capped == maybe_cap_chunks(cs, max_chunks_per_doc, rng)
           after == Len(capped.chunks)
       IN  /\ c \in KeepSet
           /\ has_useful_content(t, choose_min_chars(c))
           /\ cat' = c
           /\ text' = t
           /\ before' = Len(cs)
           /\ chunks' = capped.chunks
           /\ rng' = capped.rng
           /\ draws' = IF capped.drew THEN Append(draws, <<"sample", files[idx]>>) ELSE draws
           /\ stats' = [stats EXCEPT
                  ![c].files_seen = @ + 1,
                  ![c].files_kept = @ + 1,
                  ![c].chunks_capped_away = IF after < Len(cs) THEN @ + (Len(cs) - after) ELSE @,
                  ![c].chunks_written = @ + after]
           /\ all_records' = all_records
                  \o RecordsOf(c, files[idx], capped.chunks, Len(all_records) + 1)
    /\ idx' = idx + 1
    /\ pc' = "kept"
    /\ UNCHANGED <<mainFrame, run, first, files, val_records, train_records>>

\* after the loop: rng.shuffle(all_records), then the split
ShuffleAndSplit ==
    /\ pc \in {"for", "skipped", "discarded", "kept"}
    /\ idx > Len(files)
    /\ LET sh == shuffle(all_records, rng)
           v == val_size(Len(sh.x), val_ratio)
       IN  /\ all_records' = sh.x
           /\ rng' = sh.rng
           /\ val_records' = PySlice(sh.x, 0, v)
           /\ train_records' = PySlice(sh.x, v, Len(sh.x))
    /\ draws' = Append(draws, <<"shuffle">>)
    /\ pc' = "split_done"
    /\ UNCHANGED <<mainFrame, run, first, text, chunks, files, idx, cat, before, stats>>

\* the program is run a second time on the same directory with the same arguments
RunAgain ==
    /\ pc = "split_done"
    /\ run = 1
    /\ first' = <<train_records, val_records>>
    /\ run' = 2
    /\ pc' = "main"
    /\ text' = <<>>
    /\ chunks' = <<>>
    /\ rng' = 0
    /\ draws' = <<>>
    /\ files' = <<>>
    /\ idx' = 0
    /\ cat' = ""
    /\ before' = 0
    /\ stats' = <<>>
    /\ all_records' = <<>>
    /\ val_records' = <<>>
    /\ train_records' = <<>>
    /\ UNCHANGED mainFrame

Next ==
    \/ Setup \/ SkipFile \/ ReadFails \/ DiscardFile \/ KeepFile
    \/ ShuffleAndSplit \/ RunAgain

Spec == Init /\ [][Next]_vars

\* ------------------------------------------------- the run: its outputs
\* the run with the compute-stats-only switch among its arguments
InitDry ==
    /\ fs \in Directories
    /\ seed \in Seeds
    /\ dry_run \in BOOLEAN
    /\ max_chunks_per_doc = 0
    /\ val_ratio = 1
    /\ use_article_split = FALSE
    /\ max_chars = 2
    /\ overlap_chars = 1
    /\ pc = "main"
    /\ run = 1
    /\ first = <<>>
    /\ text = <<>>
    /\ parts = NoSplit
    /\ chunks = <<>>
    /\ lines = <<>>
    /\ removed = 0
    /\ changed = FALSE
    /\ cleaned = <<>>
    /\ normalized = <<>>
    /\ rng = 0
    /\ draws = <<>>
    /\ files = <<>>
    /\ idx = 0
    /\ cat = ""
    /\ before = 0
    /\ stats = <<>>
    /\ all_records = <<>>
    /\ val_records = <<>>
    /\ train_records = <<>>
    /\ min_chars_overrides = <<>>
    /\ overrides = <<>>
    /\ error = ""
    /\ written = {}
    /\ HardIdle

\* main, lines 302-334: the stats file is written; unless dry_run is set, the
\* train and validation files are written after it
Report ==
    /\ pc = "split_done"
    /\ written' = written \cup {"stats_csv"}
                      \cup (IF dry_run THEN {} ELSE {"train_name", "val_name"})
    /\ pc' = "done"
    /\ UNCHANGED <<text, chunkVars, stripVars, normalized, mainVars, hardVars,
                   min_chars_overrides, overrides, error, dry_run>>

NextDry == Next \/ Report

SpecDry == InitDry /\ [][NextDry]_vars

\* ------------------------------------------------------- parse_overrides
\* An override string is a sequence of the tokens "k" (a letter), "1" (a
\* digit), "=", "," and " ".
\* s.split(sep)
RECURSIVE SplitOn(_, _)
SplitOn(s, sep) ==
    LET hits == {i \in 1..Len(s) : s[i] = sep}
    IN  IF hits = {} THEN <<s>>
        ELSE <<SubSeq(s, 1, SetMin(hits) - 1)>>
             \o SplitOn(SubSeq(s, SetMin(hits) + 1, Len(s)), sep)

\* part.split("=", 1), for a part that holds "="
KeyOf(part) == SubSeq(part, 1, SetMin({i \in 1..Len(part) : part[i] = "="}) - 1)
ValueOf(part) == SubSeq(part, SetMin({i \in 1..Len(part) : part[i] = "="}) + 1, Len(part))

\* whether int(v) accepts v, and what it returns
IsIntLiteral(v) == Strip(v) # <<>> /\ \A i \in 1..Len(Strip(v)) : IsDigit(Strip(v)[i])
RECURSIVE IntOfDigits(_)
IntOfDigits(v) ==
    IF v = <<>> THEN 0 ELSE 10 * IntOfDigits(SubSeq(v, 1, Len(v) - 1)) + 1
int(v) == IntOfDigits(Strip(v))

\* the two errors parse_overrides can end with
BadOverride == "ValueError: Bad override. Use CAT=NUM"
InvalidLiteral == "ValueError: invalid literal for int()"

\* the for loop of parse_overrides over the remaining parts, out so far
RECURSIVE OverridesLoop(_, _)
OverridesLoop(ps, out) ==
    IF ps = <<>> THEN [out |-> out, error |-> ""]
    ELSE LET part == Strip(Head(ps))
         IN  IF part = <<>> THEN OverridesLoop(Tail(ps), out)
             ELSE IF \A i \in 1..Len(part) : part[i] # "="
                  THEN [out |-> out, error |-> BadOverride]
             ELSE IF ~IsIntLiteral(Strip(ValueOf(part)))
                  THEN [out |-> out, error |-> InvalidLiteral]
             ELSE OverridesLoop(Tail(ps),
                      [k \in DOMAIN out \cup {Strip(KeyOf(part))} |->
                          IF k = Strip(KeyOf(part)) THEN int(Strip(ValueOf(part)))
                          ELSE out[k]])

\* variant: an item without "=" is passed over
RECURSIVE OverridesLoopLenient(_, _)
OverridesLoopLenient(ps, out) ==
    IF ps = <<>> THEN [out |-> out, error |-> ""]
    ELSE LET part == Strip(Head(ps))
         IN  IF part = <<>> \/ \A i \in 1..Len(part) : part[i] # "="
             THEN OverridesLoopLenient(Tail(ps), out)
             ELSE IF ~IsIntLiteral(Strip(ValueOf(part)))
                  THEN [out |-> out, error |-> InvalidLiteral]
             ELSE OverridesLoopLenient(Tail(ps),
                      [k \in DOMAIN out \cup {Strip(KeyOf(part))} |->
                          IF k = Strip(KeyOf(part)) THEN int(Strip(ValueOf(part)))
                          ELSE out[k]])

parse_overrides_Lenient(s) ==
    IF Strip(s) = <<>> THEN [out |-> <<>>, error |-> ""]
    ELSE OverridesLoopLenient(SplitOn(s, ","), <<>>)

\* parse_overrides(s): the mapping, or the error it raises
parse_overrides(s) ==
    IF Strip(s) = <<>> THEN [out |-> <<>>, error |-> ""]
    ELSE OverridesLoop(SplitOn(s, ","), <<>>)

OverrideStrings == SeqsUpTo({"k", "1", "=", ",", " "}, MaxOverrideLen)

\* main is started with an override string, on a directory of two files
InitOverrides ==
    /\ min_chars_overrides \in OverrideStrings
    /\ fs = [p \in {<<"AD", 1>>, <<"RD", 1>>} |-> <<"a", "b", "1", "(">>]
    /\ seed \in Seeds
    /\ max_chunks_per_doc = 0
    /\ val_ratio = 0
    /\ rng = 0
    /\ draws = <<>>
    /\ files = <<>>
    /\ idx = 0
    /\ cat = ""
    /\ before = 0
    /\ stats = <<>>
    /\ all_records = <<>>
    /\ val_records = <<>>
    /\ train_records = <<>>
    /\ overrides = <<>>
    /\ error = ""
    /\ dry_run = FALSE
    /\ written = {}
    /\ text = <<>>
    /\ pc = "main"
    /\ ChunkIdle
    /\ StripIdle
    /\ normalized = <<>>
    /\ HardIdle

\* main, line 241: parse_overrides raises; nothing catches it
OverridesRaise ==
    /\ pc = "main"
    /\ parse_overrides(min_chars_overrides).error # ""
    /\ error' = parse_overrides(min_chars_overrides).error
    /\ pc' = "raised"
    /\ UNCHANGED <<text, chunkVars, stripVars, normalized, mainVars, hardVars,
                   min_chars_overrides, overrides, dry_run, written>>

\* main, lines 241-252: the overrides are parsed, then the random source, the
\* counters and the traversal order are set up
OverridesParsed ==
    /\ pc = "main"
    /\ parse_overrides(min_chars_overrides).error = ""
    /\ overrides' = parse_overrides(min_chars_overrides).out
    /\ rng' = RandSeed(seed)
    /\ stats' = [c \in KeepSet |-> ZeroStats]
    /\ all_records' = <<>>
    /\ \E walk \in WalkOrders(fs) : files' = iter_text_files(walk)
    /\ idx' = 1
    /\ pc' = "for"
    /\ UNCHANGED <<text, chunkVars, stripVars, normalized, hardVars,
                   fs, seed, max_chunks_per_doc, val_ratio, draws, cat, before,
                   val_records, train_records,
                   min_chars_overrides, error, dry_run, written>>

NextOverrides == OverridesRaise \/ OverridesParsed

SpecOverrides == InitOverrides /\ [][NextOverrides]_vars

\* ------------------------------------------- claims on parse_overrides
\* the items of the string, as written between the commas
Items(s) == SplitOn(s, ",")
HasEquals(item) == \E i \in 1..Len(item) : item[i] = "="
\* the text after the first "=" of the item is an integer
HasIntegerValue(item) ==
    LET eq == SetMin({i \in 1..Len(item) : item[i] = "="})
        v == Strip(SubSeq(item, eq + 1, Len(item)))
    IN  v # <<>> /\ \A i \in 1..Len(v) : v[i] = "1"

\* malformed, every item counted: some item has no "=" or no integer value
Malformed(s) ==
    s # <<>> /\ \E n \in 1..Len(Items(s)) :
        ~HasEquals(Items(s)[n]) \/ ~HasIntegerValue(Items(s)[n])

\* malformed, blank items passed over
MalformedNonBlank(s) ==
    \E n \in 1..Len(Items(s)) :
        /\ Strip(Items(s)[n]) # <<>>
        /\ ~HasEquals(Items(s)[n]) \/ ~HasIntegerValue(Items(s)[n])

\* nothing was read, drawn or written
NothingDone ==
    /\ rng = 0
    /\ draws = <<>>
    /\ files = <<>>
    /\ stats = <<>>
    /\ all_records = <<>>
    /\ written = {}

\* C13: an override string with an item without "=" or with a non-integer
\* value makes parse_overrides raise an error with a message, before any file is
\* read, the random source is used or anything is written; a well-formed string,
\* the empty one included, never raises.
C13_MalformedIsFatal ==
    pc # "main" =>
        /\ Malformed(min_chars_overrides) <=> pc = "raised"
        /\ pc = "raised" => (error # "" /\ NothingDone)

\* C13, blank items allowed: the same with items that are empty or hold only
\* spaces passed over (an empty string, a trailing comma, two commas in a row
\* are accepted).
C13_NonBlankMalformedIsFatal ==
    pc # "main" =>
        /\ MalformedNonBlank(min_chars_overrides) <=> pc = "raised"
        /\ pc = "raised" => (error \in {BadOverride, InvalidLiteral} /\ NothingDone)
        /\ pc = "for" => error = ""

\* a good item followed by a bad one: the error is raised all the same
C13_Witness ==
    /\ pc = "raised"
    /\ Len(Items(min_chars_overrides)) = 2
    /\ HasEquals(Items(min_chars_overrides)[1])
    /\ HasIntegerValue(Items(min_chars_overrides)[1])
    /\ ~HasEquals(Items(min_chars_overrides)[2])
    /\ error = BadOverride

\* ------------------------------------------------------ claims on the run
\* the collected records in the order they were created
SortRecordsById ==
    [i \in 1..Len(all_records) |->
        CHOOSE r \in {all_records[j] : j \in 1..Len(all_records)} : r.id = i]

\* C2: after the shuffle, the validation set is the first v records of the
\* shuffled sequence (all of them when v exceeds their number) and the training
\* set is the rest, in shuffled order, with v = max(1, floor(total * val_ratio))
\* when total > 0 and v = 0 when total = 0; the two lengths add up to total and
\* no record is in both sets.
C2_TrainValPartition ==
    pc = "split_done" =>
        LET total == Len(all_records)
            v == IF total > 0 THEN Max2(1, (total * val_ratio) \div 2) ELSE 0
            k == Min2(v, total)
        IN  /\ val_records = SubSeq(all_records, 1, k)
            /\ train_records = SubSeq(all_records, k + 1, total)
            /\ Len(train_records) + Len(val_records) = total
            /\ \A i \in 1..Len(val_records) : \A j \in 1..Len(train_records) :
                   val_records[i].id # train_records[j].id

C2_Witness ==
    /\ pc = "split_done"
    /\ Len(val_records) >= 2
    /\ Len(train_records) >= 2
    /\ all_records # SortRecordsById

\* C3: when a kept document produces N chunks and the cap C satisfies C > 0 and
\* N > C, exactly C chunks are retained, taken at strictly increasing positions
\* of the original list, and N - C is added to the category's capped-away
\* counter; otherwise the list is unchanged and the counter is not touched.
C3_Capping ==
    [][pc' = "kept" =>
        LET orig == chunk_document(text', max_chars, overlap_chars, SplitFor(cat'))
            N == Len(orig)
            C == max_chunks_per_doc
        IN  /\ before' = N
            /\ IF C > 0 /\ N > C
               THEN /\ Len(chunks') = C
                    /\ \E pos \in [1..C -> 1..N] :
                          /\ \A i \in 1..(C - 1) : pos[i] < pos[i + 1]
                          /\ \A i \in 1..C : chunks'[i] = orig[pos[i]]
                    /\ stats'[cat'].chunks_capped_away
                           = stats[cat'].chunks_capped_away + (N - C)
               ELSE /\ chunks' = orig
                    /\ stats'[cat'].chunks_capped_away = stats[cat'].chunks_capped_away
    ]_vars

C3_Witness ==
    /\ pc = "kept"
    /\ max_chunks_per_doc >= 2
    /\ before > max_chunks_per_doc
    /\ Len(chunks) = max_chunks_per_doc
    /\ stats[cat].chunks_capped_away = before - max_chunks_per_doc

\* the draws a run is expected to make: one sample per kept document with more
\* chunks than a positive cap, in lexicographic path order, then one shuffle
DrawsFor(path) ==
    LET c == infer_category(path)
        t == normalize_newlines(fs[path])
    IN  IF /\ c \in KeepSet
           /\ has_useful_content(t, choose_min_chars(c))
           /\ max_chunks_per_doc > 0
           /\ Len(chunk_document(t, max_chars, overlap_chars, SplitFor(c))) > max_chunks_per_doc
        THEN <<<<"sample", path>>>>
        ELSE <<>>

ExpectedDraws ==
    LET ps == CHOOSE w \in WalkOrders(fs) :
                  \A i \in 1..(Len(w) - 1) : PathLess(w[i], w[i + 1])
    IN  Flatten([i \in 1..Len(ps) |-> DrawsFor(ps[i])]) \o <<<<"shuffle">>>>

\* C4: the files are traversed in lexicographic path order, the random source is
\* used by the capping draws in that order and then by exactly one shuffle, and
\* a second run over the same directory with the same seed and arguments yields
\* the same training and validation sequences as the first.
C4_Reproducible ==
    /\ pc # "main" =>
           /\ {files[i] : i \in 1..Len(files)} = DOMAIN fs
           /\ \A i \in 1..(Len(files) - 1) : PathLess(files[i], files[i + 1])
    /\ pc = "split_done" => draws = ExpectedDraws
    /\ (pc = "split_done" /\ run = 2) => <<train_records, val_records>> = first

C4_Witness ==
    /\ pc = "split_done"
    /\ run = 2
    /\ Len(files) >= 2
    /\ Len(draws) >= 3
    /\ Len(train_records) >= 2
    /\ <<train_records, val_records>> = first

\* C12: when reading a file fails, the run goes on: the file is skipped, adds
\* no record, is counted in no per-category counter (seen, kept, discarded),
\* and the loop moves to the next file.
C12_ReadFailureSkipsFile ==
    [][(error = "" /\ error' # "") =>
          /\ pc' # "aborted"
          /\ stats' = stats
          /\ all_records' = all_records
          /\ idx' = idx + 1
    ]_vars

\* a read failure on the first of two kept files: counted as seen, run ended,
\* the second file never looked at
C12_Aborted ==
    /\ pc = "aborted"
    /\ error = "OSError"
    /\ idx = 1
    /\ Len(files) = 2
    /\ infer_category(files[2]) \in KeepSet
    /\ stats[cat].files_seen = 1
    /\ stats[cat].files_kept + stats[cat].files_discarded = 0

\* the threshold of a category: its override when it has one, else the default
Threshold(c) == IF c \in DOMAIN MinCharsOverrides THEN MinCharsOverrides[c] ELSE 1

\* number of non-whitespace characters of the normalized content of a file
UsefulChars(path) == Len(NonWS(normalize_newlines(fs[path])))

\* C14: a file of an included category is kept exactly when its normalized
\* text has at least threshold non-whitespace characters, the threshold being
\* the category's override when there is one and the default otherwise; a file
\* below the threshold is counted discarded, not kept, and no record comes
\* from it.
C14_KeptIffThreshold ==
    /\ pc \in {"kept", "discarded"} =>
          /\ text = normalize_newlines(fs[files[idx - 1]])
          /\ cat = infer_category(files[idx - 1])
          /\ pc = "kept" <=> Len(NonWS(text)) >= Threshold(cat)
    /\ \A i \in 1..Len(all_records) :
          UsefulChars(all_records[i].header[2])
              >= Threshold(infer_category(all_records[i].header[2]))
    /\ pc \in {"for", "skipped", "kept", "discarded"} =>
          \A c \in KeepSet :
             /\ stats[c].files_discarded =
                   Cardinality({j \in 1..(idx - 1) :
                       /\ infer_category(files[j]) = c
                       /\ UsefulChars(files[j]) < Threshold(c)})
             /\ stats[c].files_kept =
                   Cardinality({j \in 1..(idx - 1) :
                       /\ infer_category(files[j]) = c
                       /\ UsefulChars(files[j]) >= Threshold(c)})

\* a file with one useful character, enough for the default but not for the
\* override of its category, is discarded, and a file of the other category
\* with the same content was kept before it
C14_Witness ==
    /\ pc = "discarded"
    /\ cat = "RD"
    /\ Len(NonWS(text)) = 1
    /\ stats["RD"].files_discarded = 1
    /\ stats["AD"].files_kept = 1
    /\ \E j \in 1..(idx - 1) : infer_category(files[j]) = "AD" /\ UsefulChars(files[j]) = 1

\* C16: in the compute-stats-only mode nothing is written: after a dry run
\* neither the train file, nor the validation file, nor any other output file
\* exists.
C16_DryRunWritesNothing ==
    (pc = "done" /\ dry_run) => written = {}

\* what a dry run does leave out: the two record files
DryRunWritesNoRecordFile ==
    pc = "done" =>
        /\ "stats_csv" \in written
        /\ dry_run <=> written \cap {"train_name", "val_name"} = {}

\* a dry run over a directory with a kept file has ended, the stats file written
C16_StatsFileWritten ==
    /\ pc = "done"
    /\ dry_run
    /\ written = {"stats_csv"}
    /\ Len(all_records) >= 1

\* the files of category c among those the loop has gone through
Processed(c) == {j \in 1..(idx - 1) : infer_category(files[j]) = c}

\* those of them that pass the threshold
ProcessedKept(c) == {j \in Processed(c) : UsefulChars(files[j]) >= Threshold(c)}

\* number of chunks the chunker produces for file j
ChunksProduced(j) ==
    Len(chunk_document(normalize_newlines(fs[files[j]]), max_chars, overlap_chars,
                       SplitFor(infer_category(files[j]))))

RECURSIVE SumOver(_, _)
SumOver(S, f) ==
    IF S = {} THEN 0
    ELSE LET x == CHOOSE y \in S : TRUE IN f[x] + SumOver(S \ {x}, f)

\* C17: after any number of processed files, for every included category:
\* files_seen = files_kept + files_discarded (and is the number of its files
\* gone through); chunks_written + chunks_capped_away is the number of chunks
\* the chunker produced for its kept files; the chunks_written of all
\* categories add up to the number of collected records. Files of other
\* categories change no counter and add no record.
C17_CountersConsistent ==
    pc \in {"for", "skipped", "discarded", "kept", "split_done"} =>
        /\ DOMAIN stats = KeepSet
        /\ \A c \in KeepSet :
              /\ stats[c].files_seen = stats[c].files_kept + stats[c].files_discarded
              /\ stats[c].files_seen = Cardinality(Processed(c))
              /\ stats[c].chunks_written + stats[c].chunks_capped_away
                     = SumOver(ProcessedKept(c), [j \in 1..Len(files) |-> ChunksProduced(j)])
        /\ SumOver(KeepSet, [c \in KeepSet |-> stats[c].chunks_written]) = Len(all_records)
        /\ \A i \in 1..Len(all_records) : all_records[i].header[1] \in KeepSet

\* a kept file was capped, then a file of a category that is not included was
\* passed over
C17_Witness ==
    /\ pc = "skipped"
    /\ idx = 3
    /\ cat \notin KeepSet
    /\ stats["AD"].files_seen = 1
    /\ stats["AD"].chunks_capped_away >= 1
    /\ Len(all_records) = stats["AD"].chunks_written
    /\ Len(all_records) >= 2

====
